---- MODULE Spec2Model ----
(***************************************************************************)
(* Model of luigi/target.py: the process-wide TargetFactory (a stack of    *)
(* factory implementations plus a list of target observers).               *)
(*                                                                         *)
(* The class attributes _impl_stack and _target_observers are the state.   *)
(* Every classmethod of TargetFactory is one action.  The variable `last`  *)
(* records the most recent call (its arguments, the calls it made on       *)
(* factories and observers, in order, and how it ended); `pre` is the      *)
(* value of the two lists when that call started, with a flag telling      *)
(* whether the call before it was a push; n_push / n_pop count the         *)
(* completed pushes and pops; removed[o] is 0 when the latest add/remove   *)
(* call on observer o was an add (or there was none), and otherwise the    *)
(* number of registrations o had when its latest completed remove started. *)
(*                                                                         *)
(* The second part models FileSystem and FileSystemTarget: fs_state is the *)
(* content of each storage backend, fs_target the FileSystemTarget         *)
(* instance under study, fs_last the most recent call on it or on a        *)
(* backend, answers the last two results of its exists().  pc is the       *)
(* position of each thread in the specification with two threads.          *)
(***************************************************************************)
EXTENDS Integers, Sequences, FiniteSets, TLC

VARIABLES impl_stack, target_observers, last, pre, n_push, n_pop, removed,
          fs_state, fs_target, fs_last, answers, pc

vars == <<impl_stack, target_observers, last, pre, n_push, n_pop, removed,
          fs_state, fs_target, fs_last, answers, pc>>

\* the state of TargetFactory, of the file system part, of the threads
factory_vars == <<impl_stack, target_observers, last, pre, n_push, n_pop, removed>>
fs_vars == <<fs_state, fs_target, fs_last, answers>>

(* ---- bounds of the exploration ---- *)
MaxStack == 3
MaxObservers == 2
MaxPushes == 3
MaxRegistrations == 3

(* ---- the environment: factories, target classes, observers ---- *)

\* The instance created by the class body, `_impl_stack = [DefaultTargetFactory()]`.
Default0 == "Default0"

\* Factories a caller may push: a mock for class Y only, a mock for
\* everything, one whose make_target raises on X and declines the rest.
PushableFactories == {"MockY", "MockAll", "Raiser"}

\* Callables passed as target_class.  NullClass stands for a callable whose
\* call evaluates to None (a function, or a class whose __new__ returns None).
TargetClasses == {"X", "Y", "NullClass"}

\* Constructor arguments (*args, **kwargs), as one opaque value.
Args == {"a", "b"}

\* Observers; ORaise is one whose observe_target raises.
Observers == {"O1", "O2", "ORaise"}

\* Python's None, shaped like a target so that the two compare.
None == [kind |-> "None", cls |-> "-", args |-> "-", by |-> "-"]

\* target_class(*args, **kwargs)
Construct(cls, args) ==
    IF cls = "NullClass" THEN None
    ELSE [kind |-> "instance", cls |-> cls, args |-> args, by |-> "-"]

\* A substitute object built by a pushed factory f.
Mock(f, cls, args) == [kind |-> "mock", cls |-> cls, args |-> args, by |-> f]

\* variant of DefaultTargetFactory.make_target that forgets to return the object
DefaultTargetFactory_make_target_no_return(cls, args) ==
    [raised |-> FALSE, value |-> None]

\* DefaultTargetFactory.make_target
DefaultTargetFactory_make_target(cls, args) ==
    [raised |-> FALSE, value |-> Construct(cls, args)]

\* factory.make_target(target_class, *args, **kwargs) for each factory
factory_make_target(f, cls, args) ==
    CASE f = Default0 -> DefaultTargetFactory_make_target(cls, args)
      [] f = "MockY" ->
            [raised |-> FALSE,
             value |-> IF cls = "Y" THEN Mock(f, cls, args) ELSE None]
      [] f = "MockAll" -> [raised |-> FALSE, value |-> Mock(f, cls, args)]
      [] f = "Raiser" -> [raised |-> (cls = "X"), value |-> None]

\* obs.observe_target(target): TRUE when the call raises
observe_target_raises(o) == o = "ORaise"

(* ---- events of one call, in the order they happen ---- *)
Event(ev, who, pos, val) == [ev |-> ev, who |-> who, pos |-> pos, val |-> val]

\* variant of the walk that iterates cls._impl_stack without reversed()
RECURSIVE walk_forward_from(_, _, _, _)
walk_forward_from(stack, j, cls, args) ==
    IF j > Len(stack)
    THEN [trace |-> <<>>, outcome |-> "exhausted", target |-> None]
    ELSE LET r == factory_make_target(stack[j], cls, args) IN
         IF r.raised
         THEN [trace |-> <<Event("consult", stack[j], j, None)>>,
               outcome |-> "raise", target |-> None]
         ELSE IF r.value # None
         THEN [trace |-> <<Event("consult", stack[j], j, r.value)>>,
               outcome |-> "found", target |-> r.value]
         ELSE LET rest == walk_forward_from(stack, j + 1, cls, args) IN
              [rest EXCEPT !.trace = <<Event("consult", stack[j], j, None)>> \o @]

walk_not_reversed(stack, i, cls, args) == walk_forward_from(stack, 1, cls, args)

\* variant of the walk that catches what a factory raises and tries the next one
RECURSIVE walk_catching(_, _, _, _)
walk_catching(stack, i, cls, args) ==
    IF i = 0
    THEN [trace |-> <<>>, outcome |-> "exhausted", target |-> None]
    ELSE LET r == factory_make_target(stack[i], cls, args) IN
         IF ~r.raised /\ r.value # None
         THEN [trace |-> <<Event("consult", stack[i], i, r.value)>>,
               outcome |-> "found", target |-> r.value]
         ELSE LET rest == walk_catching(stack, i - 1, cls, args) IN
              [rest EXCEPT !.trace = <<Event("consult", stack[i], i, None)>> \o @]

\* for factory in reversed(cls._impl_stack): ... (lines 116-120, the walk)
RECURSIVE walk(_, _, _, _)
walk(stack, i, cls, args) ==
    IF i = 0
    THEN [trace |-> <<>>, outcome |-> "exhausted", target |-> None]
    ELSE LET r == factory_make_target(stack[i], cls, args) IN
         IF r.raised
         THEN [trace |-> <<Event("consult", stack[i], i, None)>>,
               outcome |-> "raise", target |-> None]
         ELSE IF r.value # None
         THEN [trace |-> <<Event("consult", stack[i], i, r.value)>>,
               outcome |-> "found", target |-> r.value]
         ELSE LET rest == walk(stack, i - 1, cls, args) IN
              [rest EXCEPT !.trace = <<Event("consult", stack[i], i, None)>> \o @]

\* variant of _observe that catches what an observer raises and goes on
RECURSIVE observe_isolating(_, _, _)
observe_isolating(observers, k, target) ==
    IF k > Len(observers)
    THEN [trace |-> <<>>, raised |-> FALSE]
    ELSE LET rest == observe_isolating(observers, k + 1, target) IN
         [rest EXCEPT !.trace = <<Event("notify", observers[k], k, target)>> \o @]

\* variant of _observe that returns after the first observer
observe_first_only(observers, k, target) ==
    IF k > Len(observers)
    THEN [trace |-> <<>>, raised |-> FALSE]
    ELSE [trace |-> <<Event("notify", observers[k], k, target)>>,
          raised |-> observe_target_raises(observers[k])]

\* TargetFactory._observe: for obs in cls._target_observers: obs.observe_target(target)
RECURSIVE observe(_, _, _)
observe(observers, k, target) ==
    IF k > Len(observers)
    THEN [trace |-> <<>>, raised |-> FALSE]
    ELSE IF observe_target_raises(observers[k])
    THEN [trace |-> <<Event("notify", observers[k], k, target)>>, raised |-> TRUE]
    ELSE LET rest == observe(observers, k + 1, target) IN
         [rest EXCEPT !.trace = <<Event("notify", observers[k], k, target)>> \o @]

\* variant of make_target without the `if target is not None` test: the
\* observers are told whatever the walk ended with
make_target_call_always_observes(stack, observers, cls, args) ==
    LET w == walk(stack, Len(stack), cls, args)
        n == IF w.outcome # "raise"
             THEN observe(observers, 1, w.target)
             ELSE [trace |-> <<>>, raised |-> FALSE]
        err == IF w.outcome = "raise" THEN "FactoryError"
               ELSE IF n.raised THEN "ObserverError" ELSE "none"
        fin == IF err = "none"
               THEN Event("return", "caller", 0, w.target)
               ELSE Event("raise", "caller", 0, None)
    IN [trace |-> w.trace \o n.trace \o <<fin>>, error |-> err,
        result |-> IF err = "none" THEN w.target ELSE None]

\* The whole of TargetFactory.make_target as a function of the two lists.
make_target_call(stack, observers, cls, args) ==
    LET w == walk(stack, Len(stack), cls, args)
        n == IF w.outcome = "found"
             THEN observe(observers, 1, w.target)
             ELSE [trace |-> <<>>, raised |-> FALSE]
        err == IF w.outcome = "raise" THEN "FactoryError"
               ELSE IF n.raised THEN "ObserverError" ELSE "none"
        fin == IF err = "none"
               THEN Event("return", "caller", 0, w.target)
               ELSE Event("raise", "caller", 0, None)
    IN [trace |-> w.trace \o n.trace \o <<fin>>, error |-> err,
        result |-> IF err = "none" THEN w.target ELSE None]

(* ---- list helpers ---- *)
Range(s) == {s[i] : i \in 1..Len(s)}

\* list.index(x) for x in the list
IndexOf(s, x) == CHOOSE i \in 1..Len(s) : s[i] = x /\ \A j \in 1..(i - 1) : s[j] # x

\* variants of list.remove(x): one that ignores an absent x (like set.discard),
\* one that completes without removing anything
list_remove_discard(s, x) ==
    IF x \in Range(s)
    THEN LET i == IndexOf(s, x) IN
         [raised |-> FALSE, value |-> SubSeq(s, 1, i - 1) \o SubSeq(s, i + 1, Len(s))]
    ELSE [raised |-> FALSE, value |-> s]

list_remove_keeps(s, x) == [raised |-> ~(x \in Range(s)), value |-> s]

\* variant of list.remove(x) that drops the last occurrence
list_remove_last(s, x) ==
    IF x \in Range(s)
    THEN LET i == CHOOSE i \in 1..Len(s) :
                     s[i] = x /\ \A j \in (i + 1)..Len(s) : s[j] # x
         IN [raised |-> FALSE, value |-> SubSeq(s, 1, i - 1) \o SubSeq(s, i + 1, Len(s))]
    ELSE [raised |-> TRUE, value |-> s]

\* list.remove(x): drops the first occurrence, raises ValueError when absent
list_remove(s, x) ==
    IF x \in Range(s)
    THEN LET i == IndexOf(s, x) IN
         [raised |-> FALSE, value |-> SubSeq(s, 1, i - 1) \o SubSeq(s, i + 1, Len(s))]
    ELSE [raised |-> TRUE, value |-> s]

\* number of positions of s holding x
RECURSIVE Count(_, _)
Count(s, x) ==
    IF s = <<>> THEN 0 ELSE (IF Head(s) = x THEN 1 ELSE 0) + Count(Tail(s), x)

\* variants of list.pop(): one that leaves the list alone, one that pops the front
list_pop_noop(s) == s

list_pop_front(s) == Tail(s)

\* list.pop()
list_pop(s) == SubSeq(s, 1, Len(s) - 1)

\* variants of the test of pop: `< 1`, and no test at all
pop_rejects_below_one(stack) == Len(stack) < 1

pop_rejects_never(stack) == FALSE

\* the test of pop: len(cls._impl_stack) < 2
pop_rejects(stack) == Len(stack) < 2

Call(op, factory, observer, cls, args, trace, error, result) ==
    [op |-> op, factory |-> factory, observer |-> observer, cls |-> cls,
     args |-> args, trace |-> trace, error |-> error, result |-> result]

\* the two lists as a call finds them, and whether the call before it was a push
Snapshot ==
    [impl_stack |-> impl_stack, target_observers |-> target_observers,
     after_push |-> (last.op = "push")]

(* ---- FileSystem and FileSystemTarget ---- *)

\* paths, opaque to the model
Paths == {"p", "q"}

\* two storage backends: fsA is of a class that overrides neither mkdir nor
\* isdir, fsB of a class that overrides mkdir only
Backends == {"fsA", "fsB"}

\* self.__class__.__name__ of a backend
class_name(fs) == IF fs = "fsA" THEN "PlainFS" ELSE "DirFS"

\* the optional methods the class of a backend overrides
Overrides(fs) == IF fs = "fsB" THEN {"mkdir"} ELSE {}

\* what a path can be in a backend
PathKinds(fs) == IF fs = "fsB" THEN {"absent", "file", "dir"} ELSE {"absent", "file"}

\* the two threads of the concurrent specification
Threads == {"t1", "t2"}

\* True / False as the caller sees them
PyBool(b) == IF b THEN "True" ELSE "False"

\* a call made on a backend
FsCall(fs, method, path) == [fs |-> fs, method |-> method, path |-> path]

\* the record of a finished call on the target or on a backend
FsDone(op, fs, path, calls, result, error, message) ==
    [op |-> op, fs |-> fs, path |-> path, calls |-> calls, result |-> result,
     error |-> error, message |-> message]

\* no FileSystemTarget constructed yet
NoTarget == [path |-> "-", fs |-> "-"]

\* FileSystem.exists(path) as a backend implements it (abstract here)
fs_exists(content, path) == content[path] # "absent"

\* FileSystem.remove(path, recursive=True) as a backend implements it
fs_remove(content, path) == [content EXCEPT ![path] = "absent"]

\* "<method>() not implemented on {0}".format(name)
not_implemented_message(method, name) == <<method, "() not implemented on ", name>>

\* variant of FileSystem.mkdir that names the base class instead of the
\* class of self
FileSystem_mkdir_names_base(fs, path) ==
    [raised |-> TRUE, error |-> "NotImplementedError",
     message |-> not_implemented_message("mkdir", "FileSystem")]

\* FileSystem.mkdir: raise NotImplementedError(...)
FileSystem_mkdir(fs, path) ==
    [raised |-> TRUE, error |-> "NotImplementedError",
     message |-> not_implemented_message("mkdir", class_name(fs))]

\* FileSystem.isdir: raise NotImplementedError(...)
FileSystem_isdir(fs, path) ==
    [raised |-> TRUE, error |-> "NotImplementedError",
     message |-> not_implemented_message("isdir", class_name(fs))]

\* FileSystemTarget.__init__(path), fs being the backend its class is wired to
FileSystemTarget_init(fs, path) == [path |-> path, fs |-> fs]

\* variant of FileSystemTarget.exists that keeps the first answer it got
FileSystemTarget_exists_memoised(t, state) ==
    IF answers[2] # "None"
    THEN [calls |-> <<>>, result |-> answers[2], target |-> t]
    ELSE [calls |-> <<FsCall(t.fs, "exists", t.path)>>,
          result |-> PyBool(fs_exists(state[t.fs], t.path)), target |-> t]

\* FileSystemTarget.exists: return self.fs.exists(self.path)
FileSystemTarget_exists(t, state) ==
    [calls |-> <<FsCall(t.fs, "exists", t.path)>>,
     result |-> PyBool(fs_exists(state[t.fs], t.path)),
     target |-> t]

\* variant of FileSystemTarget.remove that forgets the path once removed
FileSystemTarget_remove_clears_path(t, state) ==
    [calls |-> <<FsCall(t.fs, "remove", t.path)>>,
     state |-> [state EXCEPT ![t.fs] = fs_remove(@, t.path)],
     target |-> [t EXCEPT !.path = "-"]]

\* FileSystemTarget.remove: self.fs.remove(self.path)
FileSystemTarget_remove(t, state) ==
    [calls |-> <<FsCall(t.fs, "remove", t.path)>>,
     state |-> [state EXCEPT ![t.fs] = fs_remove(@, t.path)],
     target |-> t]

(* ---- initial state: the class body of TargetFactory ---- *)
Init ==
    /\ impl_stack = <<Default0>>
    /\ target_observers = <<>>
    /\ last = Call("init", "-", "-", "-", "-", <<>>, "none", None)
    /\ pre = [impl_stack |-> <<Default0>>, target_observers |-> <<>>,
             after_push |-> FALSE]
    /\ n_push = 0
    /\ n_pop = 0
    /\ removed = [o \in Observers |-> 0]
    /\ fs_state = [fs \in Backends |-> [p \in Paths |-> "absent"]]
    /\ fs_target = NoTarget
    /\ fs_last = FsDone("init", "-", "-", <<>>, "None", "none", <<>>)
    /\ answers = <<"None", "None">>
    /\ pc = [t \in Threads |-> "idle"]

(* ---- the classmethods ---- *)

make_target(cls, args) ==
    LET c == make_target_call(impl_stack, target_observers, cls, args) IN
    /\ last' = Call("make_target", "-", "-", cls, args, c.trace, c.error, c.result)
    /\ pre' = Snapshot
    /\ UNCHANGED <<impl_stack, target_observers, n_push, n_pop, removed>>
    /\ UNCHANGED <<fs_vars, pc>>

push(target_factory) ==
    /\ Len(impl_stack) < MaxStack
    /\ n_push < MaxPushes
    /\ impl_stack' = Append(impl_stack, target_factory)
    /\ last' = Call("push", target_factory, "-", "-", "-", <<>>, "none", None)
    /\ pre' = Snapshot
    /\ n_push' = n_push + 1
    /\ UNCHANGED <<target_observers, n_pop, removed>>
    /\ UNCHANGED <<fs_vars, pc>>

\* variant of pop that takes the entry off _target_observers
pop_from_observers ==
    /\ pre' = Snapshot
    /\ IF pop_rejects(impl_stack)
       THEN /\ last' = Call("pop", "-", "-", "-", "-", <<>>, "AssertionError", None)
            /\ UNCHANGED <<target_observers, n_pop>>
       ELSE /\ target_observers' = list_pop(target_observers)
            /\ last' = Call("pop", "-", "-", "-", "-", <<>>, "none", None)
            /\ n_pop' = n_pop + 1
    /\ UNCHANGED <<impl_stack, n_push, removed>>
    /\ UNCHANGED <<fs_vars, pc>>

pop ==
    /\ pre' = Snapshot
    /\ IF pop_rejects(impl_stack)
       THEN /\ last' = Call("pop", "-", "-", "-", "-", <<>>, "AssertionError", None)
            /\ UNCHANGED <<impl_stack, n_pop>>
       ELSE /\ impl_stack' = list_pop(impl_stack)
            /\ last' = Call("pop", "-", "-", "-", "-", <<>>, "none", None)
            /\ n_pop' = n_pop + 1
    /\ UNCHANGED <<target_observers, n_push, removed>>
    /\ UNCHANGED <<fs_vars, pc>>

add_target_observer(observer) ==
    /\ Len(target_observers) < MaxObservers
    /\ target_observers' = Append(target_observers, observer)
    /\ last' = Call("add_target_observer", "-", observer, "-", "-", <<>>, "none", None)
    /\ pre' = Snapshot
    /\ removed' = [removed EXCEPT ![observer] = 0]
    /\ UNCHANGED <<impl_stack, n_push, n_pop>>
    /\ UNCHANGED <<fs_vars, pc>>

remove_target_observer(observer) ==
    LET r == list_remove(target_observers, observer) IN
    /\ pre' = Snapshot
    /\ target_observers' = r.value
    /\ last' = Call("remove_target_observer", "-", observer, "-", "-", <<>>,
                    IF r.raised THEN "ValueError" ELSE "none", None)
    /\ removed' = IF r.raised THEN removed
                  ELSE [removed EXCEPT ![observer] = Count(target_observers, observer)]
    /\ UNCHANGED <<impl_stack, n_push, n_pop>>
    /\ UNCHANGED <<fs_vars, pc>>

Next ==
    \/ \E cls \in TargetClasses, args \in Args : make_target(cls, args)
    \/ \E f \in PushableFactories : push(f)
    \/ pop
    \/ \E o \in Observers : add_target_observer(o)
    \/ \E o \in Observers : remove_target_observer(o)

Spec == Init /\ [][Next]_vars

(* ---- calls on a FileSystemTarget and on its backend ---- *)

\* target = SomeFileSystemTarget(path)
new_target(fs, path) ==
    /\ fs_target' = FileSystemTarget_init(fs, path)
    /\ fs_last' = FsDone("new", fs, path, <<>>, "None", "none", <<>>)
    /\ answers' = <<"None", "None">>
    /\ UNCHANGED <<fs_state, factory_vars, pc>>

\* target.exists()
target_exists ==
    /\ fs_target # NoTarget
    /\ LET r == FileSystemTarget_exists(fs_target, fs_state) IN
       /\ fs_last' = FsDone("exists", fs_target.fs, fs_target.path, r.calls, r.result,
                            "none", <<>>)
       /\ answers' = <<answers[2], r.result>>
       /\ fs_target' = r.target
    /\ UNCHANGED <<fs_state, factory_vars, pc>>

\* target.remove()
target_remove ==
    /\ fs_target # NoTarget
    /\ LET r == FileSystemTarget_remove(fs_target, fs_state) IN
       /\ fs_last' = FsDone("remove", fs_target.fs, fs_target.path, r.calls, "None",
                            "none", <<>>)
       /\ fs_state' = r.state
       /\ fs_target' = r.target
    /\ UNCHANGED <<answers, factory_vars, pc>>

\* something else creates or deletes a path in a backend
backend_change(fs, path, kind) ==
    /\ fs_state[fs][path] # kind
    /\ fs_state' = [fs_state EXCEPT ![fs][path] = kind]
    /\ fs_last' = FsDone("backend", fs, path, <<>>, "None", "none", <<>>)
    /\ UNCHANGED <<fs_target, answers, factory_vars, pc>>

\* fs.mkdir(path) on a backend
fs_mkdir(fs, path) ==
    /\ IF "mkdir" \in Overrides(fs)
       THEN /\ fs_state' = [fs_state EXCEPT ![fs][path] = "dir"]
            /\ fs_last' = FsDone("mkdir", fs, path, <<>>, "None", "none", <<>>)
       ELSE LET r == FileSystem_mkdir(fs, path) IN
            /\ fs_last' = FsDone("mkdir", fs, path, <<>>, "None", r.error, r.message)
            /\ UNCHANGED fs_state
    /\ UNCHANGED <<fs_target, answers, factory_vars, pc>>

\* fs.isdir(path) on a backend
fs_isdir(fs, path) ==
    /\ IF "isdir" \in Overrides(fs)
       THEN fs_last' = FsDone("isdir", fs, path, <<>>,
                              PyBool(fs_state[fs][path] = "dir"), "none", <<>>)
       ELSE LET r == FileSystem_isdir(fs, path) IN
            fs_last' = FsDone("isdir", fs, path, <<>>, "None", r.error, r.message)
    /\ UNCHANGED <<fs_state, fs_target, answers, factory_vars, pc>>

NextFS ==
    \/ \E fs \in Backends, path \in Paths : new_target(fs, path)
    \/ target_exists
    \/ target_remove
    \/ \E fs \in Backends, path \in Paths :
          \E kind \in PathKinds(fs) : backend_change(fs, path, kind)
    \/ \E fs \in Backends, path \in Paths : fs_mkdir(fs, path)
    \/ \E fs \in Backends, path \in Paths : fs_isdir(fs, path)

SpecFS == Init /\ [][NextFS]_vars

(* ---- push and pop called by two threads ---- *)

\* one thread runs push: a single list.append
thread_push(t, target_factory) ==
    /\ pc[t] = "idle"
    /\ Len(impl_stack) < MaxStack
    /\ n_push < MaxPushes
    /\ impl_stack' = Append(impl_stack, target_factory)
    /\ last' = Call("push", target_factory, "-", "-", "-", <<>>, "none", None)
    /\ pre' = Snapshot
    /\ n_push' = n_push + 1
    /\ UNCHANGED <<target_observers, n_pop, removed, fs_vars, pc>>

\* one thread evaluates `if len(cls._impl_stack) < 2: raise AssertionError(...)`
thread_pop_check(t) ==
    /\ pc[t] = "idle"
    /\ IF pop_rejects(impl_stack)
       THEN /\ last' = Call("pop", "-", "-", "-", "-", <<>>, "AssertionError", None)
            /\ pre' = Snapshot
            /\ UNCHANGED pc
       ELSE /\ pc' = [pc EXCEPT ![t] = "checked"]
            /\ UNCHANGED <<last, pre>>
    /\ UNCHANGED <<impl_stack, target_observers, n_push, n_pop, removed, fs_vars>>

\* the same thread, later, runs `cls._impl_stack.pop()`
thread_pop_remove(t) ==
    /\ pc[t] = "checked"
    /\ pc' = [pc EXCEPT ![t] = "idle"]
    /\ pre' = Snapshot
    /\ IF impl_stack = <<>>
       THEN /\ last' = Call("pop", "-", "-", "-", "-", <<>>, "IndexError", None)
            /\ UNCHANGED <<impl_stack, n_pop>>
       ELSE /\ impl_stack' = list_pop(impl_stack)
            /\ last' = Call("pop", "-", "-", "-", "-", <<>>, "none", None)
            /\ n_pop' = n_pop + 1
    /\ UNCHANGED <<target_observers, n_push, removed, fs_vars>>

NextThreads ==
    \/ \E t \in Threads, f \in PushableFactories : thread_push(t, f)
    \/ \E t \in Threads : thread_pop_check(t)
    \/ \E t \in Threads : thread_pop_remove(t)

SpecThreads == Init /\ [][NextThreads]_vars

(* ---- the observer list on its own, starting from any list of registrations ---- *)

\* the lists of at most n elements of S
SeqsUpTo(S, n) == UNION {[1..k -> S] : k \in 0..n}

\* the state after any series of add_target_observer calls on a new process
InitRegistered ==
    /\ impl_stack = <<Default0>>
    /\ target_observers \in SeqsUpTo(Observers, MaxRegistrations)
    /\ last = Call("init", "-", "-", "-", "-", <<>>, "none", None)
    /\ pre = [impl_stack |-> <<Default0>>, target_observers |-> target_observers,
             after_push |-> FALSE]
    /\ n_push = 0
    /\ n_pop = 0
    /\ removed = [o \in Observers |-> 0]
    /\ fs_state = [fs \in Backends |-> [p \in Paths |-> "absent"]]
    /\ fs_target = NoTarget
    /\ fs_last = FsDone("init", "-", "-", <<>>, "None", "none", <<>>)
    /\ answers = <<"None", "None">>
    /\ pc = [t \in Threads |-> "idle"]

NextObservers ==
    \/ \E cls \in TargetClasses, args \in Args : make_target(cls, args)
    \/ \E o \in Observers : add_target_observer(o)
    \/ \E o \in Observers : remove_target_observer(o)

SpecObservers == InitRegistered /\ [][NextObservers]_vars

(***************************************************************************)
(* Properties                                                              *)
(***************************************************************************)

IsPop == last.op = "pop"
IsPush == last.op = "push"
IsMakeTarget == last.op = "make_target"
IsRemove == last.op = "remove_target_observer"
Completed == last.error = "none"

\* C1: in every reachable state the factory stack is non-empty and its
\* position 0 (index 1 here) is the DefaultTargetFactory instance the stack
\* was initialised with.
C1_StackNeverEmpty ==
    /\ Len(impl_stack) >= 1
    /\ impl_stack[1] = Default0

\* C1 case: after pushes and pops brought the stack back to one entry, a
\* further pop was attempted and rejected, with an observer registered.
C1_Witness ==
    /\ IsPop /\ last.error = "AssertionError"
    /\ n_pop >= 1
    /\ target_observers # <<>>

\* C2: pop() on a stack of exactly one entry fails with AssertionError and
\* leaves the stack and the observer list exactly as they were.
C2_PopLastEntryFails ==
    (IsPop /\ Len(pre.impl_stack) = 1) =>
        /\ last.error = "AssertionError"
        /\ impl_stack = pre.impl_stack
        /\ target_observers = pre.target_observers

\* C2 case: a rejected pop on the one-entry stack while observers are registered.
C2_Witness ==
    /\ IsPop /\ Len(pre.impl_stack) = 1
    /\ Len(target_observers) = MaxObservers

\* C3: the stack size is 1 + (completed pushes) - (completed pops); each
\* push grows the stack by exactly one entry and each completed pop shrinks
\* it by exactly one.
C3_StackSize ==
    /\ Len(impl_stack) = 1 + n_push - n_pop
    /\ IsPush => Len(impl_stack) = Len(pre.impl_stack) + 1
    /\ (IsPop /\ Completed) => Len(impl_stack) = Len(pre.impl_stack) - 1

\* C3 case: several pushes and pops, the last call a completed pop.
C3_Witness ==
    /\ IsPop /\ Completed
    /\ n_push >= 3 /\ n_pop >= 2

\* the events of a trace that are calls of factory.make_target / observe_target
Consults(trace) == SelectSeq(trace, LAMBDA e : e.ev = "consult")
Notifies(trace) == SelectSeq(trace, LAMBDA e : e.ev = "notify")

\* factory f returns None for the request (cls, args)
Declines(f, cls, args) ==
    /\ ~factory_make_target(f, cls, args).raised
    /\ factory_make_target(f, cls, args).value = None

\* C4: make_target consults the factories from the most recently pushed
\* downwards, each at most once; every factory consulted before the last one
\* declined; a returned target is the result of the last factory consulted,
\* and no factory below that one is consulted.
C4_TopDownFirstMatch ==
    IsMakeTarget =>
        LET cs == Consults(last.trace)
            k == Len(cs)
            n == Len(pre.impl_stack)
        IN /\ k >= 1 /\ k <= n
           /\ SubSeq(last.trace, 1, k) = cs
           /\ \A j \in 1..k :
                 /\ cs[j].pos = n - j + 1
                 /\ cs[j].who = pre.impl_stack[n - j + 1]
           /\ \A j \in 1..(k - 1) :
                 /\ cs[j].val = None
                 /\ Declines(cs[j].who, last.cls, last.args)
           /\ (Completed /\ last.result # None) =>
                 /\ cs[k].val = last.result
                 /\ factory_make_target(cs[k].who, last.cls, last.args).value = last.result

\* C4 case: a three-entry stack whose top declines, whose middle entry wins,
\* and whose bottom entry is therefore not consulted.
C4_Witness ==
    /\ IsMakeTarget /\ Completed /\ last.result # None
    /\ Len(impl_stack) = 3
    /\ Len(Consults(last.trace)) = 2

\* C5 as stated: with DefaultTargetFactory at the bottom and no factory
\* raising, make_target returns a non-null target.
C5_AlwaysReturnsTarget ==
    (IsMakeTarget /\ pre.impl_stack[1] = Default0 /\ last.error # "FactoryError") =>
        /\ Completed
        /\ last.result # None

\* C5 amended: with DefaultTargetFactory at the bottom, no factory and no
\* observer raising, and target_class(*args, **kwargs) itself not None,
\* make_target returns a non-null target; and when every pushed factory
\* declines, a call that returns gives exactly target_class(*args, **kwargs).
C5_ReturnsTargetUnlessNullOrRaise ==
    (IsMakeTarget /\ pre.impl_stack[1] = Default0) =>
        /\ (/\ last.error # "FactoryError"
            /\ \A e \in Range(Notifies(last.trace)) : ~observe_target_raises(e.who)
            /\ Construct(last.cls, last.args) # None)
           => (Completed /\ last.result # None)
        /\ (/\ Completed
            /\ \A i \in 2..Len(pre.impl_stack) :
                  Declines(pre.impl_stack[i], last.cls, last.args))
           => last.result = Construct(last.cls, last.args)

\* C5 case: a pushed factory declined and the default factory built the
\* target that was returned, with an observer registered.
C5_Witness ==
    /\ IsMakeTarget /\ Completed
    /\ Len(impl_stack) >= 2
    /\ \A i \in 2..Len(impl_stack) : Declines(impl_stack[i], last.cls, last.args)
    /\ last.result = Construct(last.cls, last.args)
    /\ last.result # None
    /\ target_observers # <<>>

Notified(o) == \E e \in Range(Notifies(last.trace)) : e.who = o

\* C7 as stated: an observer whose latest add/remove call was a completed
\* remove is not notified by any make_target call.
C7_RemovedNotNotified ==
    IsMakeTarget => \A o \in Observers : removed[o] >= 1 => ~Notified(o)

\* C7 amended: an observer whose latest add/remove call was a completed
\* remove that took away its only registration is not notified by any
\* make_target call (until it is registered again).
C7_LastRegistrationRemovedNotNotified ==
    IsMakeTarget => \A o \in Observers : removed[o] = 1 => ~Notified(o)

\* C7 case: a target was produced and notified to a registered observer while
\* another observer, removed from its only registration, was left out.
C7_Witness ==
    /\ IsMakeTarget /\ Completed /\ last.result # None
    /\ \E o \in Observers : removed[o] = 1
    /\ Notifies(last.trace) # <<>>

\* C8: remove_target_observer(o) for an o that is not registered fails with
\* an error and leaves the observer list and the factory stack unchanged.
C8_RemoveUnregisteredFails ==
    (IsRemove /\ last.observer \notin Range(pre.target_observers)) =>
        /\ last.error = "ValueError"
        /\ target_observers = pre.target_observers
        /\ impl_stack = pre.impl_stack

\* C8 case: a remove of an unregistered observer while another is registered
\* and a factory is pushed.
C8_Witness ==
    /\ IsRemove /\ last.observer \notin Range(pre.target_observers)
    /\ target_observers # <<>>
    /\ Len(impl_stack) >= 2

\* C9: when every factory of the stack returns None for the request,
\* make_target returns None and calls no observer; and every observer call
\* carries a target that a factory produced in that call.
C9_NothingProducedNothingNotified ==
    IsMakeTarget =>
        /\ (\A i \in 1..Len(pre.impl_stack) :
                Declines(pre.impl_stack[i], last.cls, last.args))
           => /\ Completed
              /\ last.result = None
              /\ Notifies(last.trace) = <<>>
        /\ \A e \in Range(Notifies(last.trace)) :
              /\ e.val # None
              /\ \E c \in Range(Consults(last.trace)) : c.val = e.val

\* C9 case: every factory of a pushed stack declined while observers were
\* registered.
C9_Witness ==
    /\ IsMakeTarget
    /\ Len(impl_stack) >= 2
    /\ \A i \in 1..Len(impl_stack) : Declines(impl_stack[i], last.cls, last.args)
    /\ target_observers # <<>>

\* C10: after push(F) the top entry is F; every make_target call consults the
\* top entry first; a completed pop removes only the top entry; and a pop
\* right after push(F) completes and gives back the stack as it was before
\* that push.
C10_Step ==
    /\ last'.op = "push" =>
          /\ impl_stack'[Len(impl_stack')] = last'.factory
          /\ SubSeq(impl_stack', 1, Len(impl_stack') - 1) = impl_stack
    /\ last'.op = "make_target" =>
          /\ last'.trace[1].ev = "consult"
          /\ last'.trace[1].who = impl_stack[Len(impl_stack)]
          /\ last'.trace[1].pos = Len(impl_stack)
    /\ (last'.op = "pop" /\ last'.error = "none") =>
          impl_stack' = SubSeq(impl_stack, 1, Len(impl_stack) - 1)
    /\ (last.op = "push" /\ last'.op = "pop") =>
          /\ last'.error = "none"
          /\ impl_stack' = pre.impl_stack

C10_PushPopRestores == [][C10_Step]_vars

\* C10 case: a pop right after a push, on a stack that keeps pushed entries.
C10_Witness ==
    /\ IsPop /\ Completed /\ pre.after_push
    /\ Len(impl_stack) >= 2

IsExists == fs_last.op = "exists"

\* C11: every target.exists() call asks the bound backend, once, about the
\* target's path, and returns what the backend answers for its content at that
\* moment, whatever earlier calls returned.
C11_ExistsReflectsBackend ==
    IsExists =>
        /\ fs_last.calls = <<FsCall(fs_target.fs, "exists", fs_target.path)>>
        /\ fs_last.result = PyBool(fs_exists(fs_state[fs_target.fs], fs_target.path))

\* C11 case: the backend changed between two exists() calls on the same
\* target and the second answer differs from the first.
C11_Witness ==
    /\ IsExists
    /\ answers[1] # "None"
    /\ answers[1] # answers[2]

\* C12: mkdir(path) and isdir(path) on a backend whose class does not override
\* them raise NotImplementedError with a message that names the class of that
\* backend, and leave the backend as it was.
C12_Step ==
    (/\ fs_last'.op \in {"mkdir", "isdir"}
     /\ fs_last'.op \notin Overrides(fs_last'.fs)) =>
        /\ fs_last'.error = "NotImplementedError"
        /\ fs_last'.result = "None"
        /\ fs_last'.message =
              <<fs_last'.op, "() not implemented on ", class_name(fs_last'.fs)>>
        /\ fs_state' = fs_state

C12_UnsupportedCapability == [][C12_Step]_vars

\* C12 case: mkdir on the backend that does not override it, while the other
\* backend holds a directory made by its own mkdir.
C12_Witness ==
    /\ fs_last.op = "mkdir" /\ fs_last.fs = "fsA"
    /\ \E p \in Paths : fs_state["fsB"][p] = "dir"

\* C13: exists() and remove() leave the target's path and backend as they
\* were, and remove() makes exactly one call, remove of that path on that
\* backend, after which the backend is what that call makes of it.
C13_Step ==
    /\ fs_last'.op \in {"exists", "remove"} =>
          /\ fs_target' = fs_target
          /\ fs_last'.path = fs_target.path /\ fs_last'.fs = fs_target.fs
    /\ fs_last'.op = "remove" =>
          /\ fs_last'.calls = <<FsCall(fs_target.fs, "remove", fs_target.path)>>
          /\ fs_state' = [fs_state EXCEPT ![fs_target.fs] = fs_remove(@, fs_target.path)]

C13_PathFixed == [][C13_Step]_vars

\* C13 case: remove() on a target whose path existed at its last exists() and
\* is now absent, while the other path of the backend is still there.
C13_Witness ==
    /\ fs_last.op = "remove"
    /\ answers[2] = "True"
    /\ fs_state[fs_target.fs][fs_target.path] = "absent"
    /\ \E p \in Paths : fs_state[fs_target.fs][p] # "absent"

IsAdd == last.op = "add_target_observer"

\* C14: push and pop, completed or rejected, leave the observer list as it
\* was; add_target_observer and remove_target_observer, completed or rejected,
\* leave the factory stack as it was; make_target leaves both as they were.
C14_StackAndObserversIndependent ==
    /\ (IsPush \/ IsPop) => target_observers = pre.target_observers
    /\ (IsAdd \/ IsRemove) => impl_stack = pre.impl_stack
    /\ IsMakeTarget =>
          /\ impl_stack = pre.impl_stack
          /\ target_observers = pre.target_observers

\* C14 case: a completed pop while two observers are registered.
C14_Witness ==
    /\ IsPop /\ Completed
    /\ Len(target_observers) >= 2
    /\ Len(impl_stack) >= 2

\* C15: with push and pop called by two threads, the test of pop and its
\* list.pop() being separate steps, the stack is never empty and its first
\* entry stays the initial DefaultTargetFactory.
C15_StackNeverEmptyWithThreads ==
    /\ impl_stack # <<>>
    /\ Head(impl_stack) = Default0

\* a factory produced a target during the last call
Produced == \E c \in Range(Consults(last.trace)) : c.val # None

\* the positions of a list of observers whose observe_target raises
RaisingAt(observers) == {j \in 1..Len(observers) : observe_target_raises(observers[j])}

\* C16: when a target is produced and a registered observer raises while
\* being notified, the observers before it and the raising one are called, in
\* order, the observers registered after it are not, the call ends with the
\* error and returns no target, and both lists are as they were.
C16_ObserverRaiseAborts ==
    (IsMakeTarget /\ Produced /\ RaisingAt(pre.target_observers) # {}) =>
        LET j0 == CHOOSE j \in RaisingAt(pre.target_observers) :
                     \A i \in RaisingAt(pre.target_observers) : j <= i
            ns == Notifies(last.trace)
        IN /\ Len(ns) = j0
           /\ \A j \in 1..j0 : ns[j].who = pre.target_observers[j]
           /\ last.error = "ObserverError"
           /\ last.result = None
           /\ last.trace[Len(last.trace)].ev = "raise"
           /\ \A e \in Range(last.trace) : e.ev # "return"
           /\ impl_stack = pre.impl_stack
           /\ target_observers = pre.target_observers

\* C16 case: the raising observer is registered first and another observer
\* after it, and a pushed factory produced the target.
C16_Witness ==
    /\ IsMakeTarget /\ Produced
    /\ Len(target_observers) = 2
    /\ observe_target_raises(target_observers[1])
    /\ ~observe_target_raises(target_observers[2])
    /\ Len(impl_stack) >= 2

\* list s without its first element equal to x (x being in s)
WithoutFirst(s, x) ==
    LET i == CHOOSE i \in 1..Len(s) : s[i] = x /\ \A j \in 1..(i - 1) : s[j] # x
    IN [j \in 1..(Len(s) - 1) |-> IF j < i THEN s[j] ELSE s[j + 1]]

\* how many times observer o was called during the last call
NotifyCount(o) ==
    Cardinality({k \in 1..Len(Notifies(last.trace)) : Notifies(last.trace)[k].who = o})

\* the parts of C17 about add_target_observer and remove_target_observer
C17_AddRemove ==
    /\ IsAdd => target_observers = Append(pre.target_observers, last.observer)
    /\ (IsRemove /\ last.observer \in Range(pre.target_observers)) =>
          /\ Completed
          /\ target_observers = WithoutFirst(pre.target_observers, last.observer)
          /\ Count(target_observers, last.observer) =
                Count(pre.target_observers, last.observer) - 1

\* C17 as stated: add appends even when the observer is registered already, a
\* completed remove drops exactly its earliest registration, and for every
\* target produced each observer is called as many times as it is registered.
C17_NotificationsEqualRegistrations ==
    /\ C17_AddRemove
    /\ (IsMakeTarget /\ Produced) =>
          \A o \in Observers : NotifyCount(o) = Count(pre.target_observers, o)

\* C17 amended: the same, the count of calls being claimed only for
\* make_target calls that return the target (no observer raised).
C17_NotificationsEqualRegistrationsOnReturn ==
    /\ C17_AddRemove
    /\ (IsMakeTarget /\ Produced /\ Completed) =>
          \A o \in Observers : NotifyCount(o) = Count(pre.target_observers, o)

\* C17 case: an observer registered first and third, with another one in
\* between, has its first registration removed.
C17_Witness ==
    /\ IsRemove /\ Completed
    /\ Len(pre.target_observers) = 3
    /\ pre.target_observers[1] = last.observer
    /\ pre.target_observers[2] # last.observer
    /\ pre.target_observers[3] = last.observer
    /\ target_observers = <<pre.target_observers[2], last.observer>>

\* the positions of a stack whose factory raises for the request while every
\* factory above it declines
RaisingFirstAt(stack, cls, args) ==
    {i \in 1..Len(stack) :
        /\ factory_make_target(stack[i], cls, args).raised
        /\ \A j \in (i + 1)..Len(stack) : Declines(stack[j], cls, args)}

\* C18: when a factory raises during the walk, the factories above it and the
\* raising one are the only ones consulted, no observer is called, the call
\* ends with the error and returns no target, and both lists are as they were.
C18_FactoryRaiseAborts ==
    \A i \in (IF IsMakeTarget
              THEN RaisingFirstAt(pre.impl_stack, last.cls, last.args) ELSE {}) :
        LET cs == Consults(last.trace)
            n == Len(pre.impl_stack)
        IN /\ Len(cs) = n - i + 1
           /\ \A k \in 1..Len(cs) : cs[k].pos = n - k + 1
           /\ cs[Len(cs)].who = pre.impl_stack[i]
           /\ Notifies(last.trace) = <<>>
           /\ last.error = "FactoryError"
           /\ last.result = None
           /\ Len(last.trace) = Len(cs) + 1
           /\ last.trace[Len(last.trace)].ev = "raise"
           /\ impl_stack = pre.impl_stack
           /\ target_observers = pre.target_observers

\* C18 case: the raising factory sits between a declining one on top and the
\* default below, with an observer registered.
C18_Witness ==
    /\ IsMakeTarget
    /\ Len(impl_stack) = 3
    /\ RaisingFirstAt(impl_stack, last.cls, last.args) = {2}
    /\ target_observers # <<>>

====
